---- MODULE Spec2Model ----
(***************************************************************************)
(* A model of paf's xcm.py: the Python wrapper classes Socket,             *)
(* ConnectionSocket and ServerSocket around the native XCM library.        *)
(*                                                                         *)
(* The wrapper objects (their fields xcm_socket and condition) and every  *)
(* method of xcm.py are translated from the source.  The native library   *)
(* libxcm.so.0 is not part of the source tree; its functions (the          *)
(* operators named xcm_*_c) are modelled from the written specification    *)
(* of the messaging core: message queues per connection, a listener        *)
(* backlog, a blocking flag and an awaited condition per native socket.    *)
(* Each native function is a set of possible outcomes; a wrapper method    *)
(* is one action that picks one outcome.  A call that would block the      *)
(* calling thread has no outcome and so is not enabled.                    *)
(***************************************************************************)
EXTENDS Integers, Sequences, FiniteSets, TLC

(* ------------------------------ bounds -------------------------------- *)

\* wrapper objects that are ever constructed
MaxObj == 3
\* native sockets that are ever allocated
MaxHandles == 3
\* messages a connection holds in flight in one direction
MaxQueue == 2

(* ------------------------- program constants -------------------------- *)

ATTR_TYPE_BOOL == 1
ATTR_TYPE_INT64 == 2
ATTR_TYPE_STR == 3
ATTR_TYPE_BIN == 4
MAX_MSG == 65535
SO_RECEIVABLE == 1
SO_SENDABLE == 2
SO_ACCEPTABLE == 4
NONBLOCK == 1
\* attr_capacity in Socket.get_attr
attr_capacity == 1024

\* Python's None, and the NULL pointer ctypes passes for it
None == 0

Objs == 1..MaxObj
Handles == 1..MaxHandles

Min(S) == CHOOSE x \in S : \A y \in S : x <= y
Range(f) == {f[i] : i \in DOMAIN f}

(* ------------------------------ values -------------------------------- *)

\* A bytes value: `len' bytes of the content named `id', then `pad' zero
\* bytes (what is left of a zero-filled ctypes buffer).
Bytes(id, len, pad) == [id |-> IF len = 0 THEN 0 ELSE id, len |-> len, pad |-> pad]
EmptyBytes == Bytes(0, 0, 0)

\* len(msg)
BLen(b) == b.len + b.pad

\* b[:n]
Slice(b, n) ==
    IF n <= 0 THEN EmptyBytes
    ELSE IF n <= b.len THEN Bytes(b.id, n, 0)
    ELSE Bytes(b.id, b.len, IF n - b.len < b.pad THEN n - b.len ELSE b.pad)

\* create_string_buffer(cap) after the native library wrote b into it
Buffer(b, cap) ==
    LET kept == Slice(b, cap) IN Bytes(kept.id, kept.len, cap - kept.len)

\* the messages callers pass to send
Small == Bytes(1, 1, 0)
Full == Bytes(2, MAX_MSG, 0)
TooLong == Bytes(3, MAX_MSG + 1, 0)
Messages == {Small, Full, TooLong, EmptyBytes}

\* the condition masks callers pass to update; 8 is no readiness condition
Masks == {0, SO_RECEIVABLE, 8}

Addrs == {"ux:a", "bogus"}

VARIABLES
    kind,        \* the class of each wrapper object, "free" before construction
    xcm_socket,  \* Socket.xcm_socket: the native handle, or None
    condition,   \* Socket.condition: the cached condition mask
    made,        \* the handle each object was constructed with
    torn,        \* the objects whose __del__ has run
    libxcm,      \* the native library's sockets
    flight,      \* per native socket, the messages sent to it and not yet received
    call,        \* the last call: method, object, argument, result, native call
    crashed      \* the process died inside the native library

vars == <<kind, xcm_socket, condition, made, torn, libxcm, flight, call, crashed>>

(* ------------------- the native library (libxcm.so.0) ----------------- *)

\* the largest message the native library takes
XCM_MAX_MSG == 65535

\* a native socket that was never allocated
Unused ==
    [phase |-> "unused", type |-> "conn", blocking |-> TRUE, cond |-> 0,
     peer |-> None, inq |-> <<>>, eof |-> FALSE, backlog |-> <<>>, closes |-> 0]

\* One outcome of a native call: the return code (or the returned pointer
\* in h), errno, the library's state afterwards, what was written to the
\* caller's buffers, and whether the process died in the call.
Out(rc, errno, X) ==
    [rc |-> rc, errno |-> errno, X |-> X, h |-> None, buf |-> EmptyBytes,
     tag |-> 0, raw |-> <<>>, crash |-> FALSE]
Fail(X, e) == Out(-1, e, X)
Crash(X) == [Out(-1, "none", X) EXCEPT !.crash = TRUE]

\* h points to a socket the library has not released
Valid(X, h) == h # None /\ X[h].phase \in {"pending", "ready"}

\* A call with NULL or with a released pointer is undefined behaviour of
\* the C library: the process may die, or the call may return either way.
Undefined(X) == {Crash(X), Fail(X, "EINVAL"), Out(0, "none", X)}
UndefinedPtr(X) == {Crash(X), Fail(X, "EINVAL")}

FreeHandles(X) == {h \in Handles : X[h].phase = "unused"}
Listening(X) == {h \in Handles : X[h].type = "server" /\ X[h].phase = "ready"}

xcm_connect_c(X, addr, flags) ==
    IF addr # "ux:a" THEN {Fail(X, "EINVAL")}
    ELSE IF Listening(X) = {} THEN {Fail(X, "ECONNREFUSED")}
    ELSE IF Cardinality(FreeHandles(X)) < 2 THEN {}
    ELSE LET c == Min(FreeHandles(X))
             p == Min(FreeHandles(X) \ {c})
             l == Min(Listening(X))
             nb == (flags % 2 = NONBLOCK)
         IN  {[Out(0, "none",
                  [X EXCEPT ![c] = [Unused EXCEPT !.phase = IF nb THEN "pending" ELSE "ready",
                                                  !.blocking = ~nb, !.peer = p],
                            ![p] = [Unused EXCEPT !.phase = "backlog", !.peer = c],
                            ![l].backlog = Append(@, p)])
               EXCEPT !.h = c]}

xcm_server_c(X, addr) ==
    IF addr # "ux:a" THEN {Fail(X, "EINVAL")}
    ELSE IF Listening(X) # {} THEN {Fail(X, "EADDRINUSE")}
    ELSE IF FreeHandles(X) = {} THEN {}
    ELSE LET l == Min(FreeHandles(X))
         IN  {[Out(0, "none", [X EXCEPT ![l] = [Unused EXCEPT !.phase = "ready",
                                                             !.type = "server"]])
               EXCEPT !.h = l]}

\* what releasing h does to the library: h and, for a listener, the
\* connections still in its backlog are gone, and their peers see the end
Released(X, h) ==
    LET dead == {h} \cup Range(X[h].backlog)
    IN  [k \in Handles |->
            IF k \in dead
            THEN [Unused EXCEPT !.phase = "closed",
                                !.closes = IF k = h /\ X[k].closes < 2
                                           THEN X[k].closes + 1 ELSE X[k].closes]
            ELSE IF X[k].peer \in dead /\ X[k].phase \notin {"unused", "closed"}
            THEN [X[k] EXCEPT !.eof = TRUE]
            ELSE X[k]]

xcm_close_c(X, h) ==
    IF h = None THEN {Crash(X), Out(0, "none", X)}
    ELSE {Out(0, "none", Released(X, h))}

xcm_finish_c(X, h) ==
    IF ~Valid(X, h) THEN Undefined(X)
    ELSE IF X[h].phase = "pending"
    THEN {Out(0, "none", [X EXCEPT ![h].phase = "ready"])}
         \cup (IF X[h].blocking THEN {} ELSE {Fail(X, "EAGAIN")})
    ELSE {Out(0, "none", X)}

xcm_set_blocking_c(X, h, val) ==
    IF ~Valid(X, h) THEN Undefined(X)
    ELSE {Out(0, "none", [X EXCEPT ![h].blocking = val]), Fail(X, "EIO")}

xcm_is_blocking_c(X, h) ==
    IF ~Valid(X, h) THEN {Crash(X), Out(0, "none", X), Out(1, "none", X)}
    ELSE {Out(IF X[h].blocking THEN 1 ELSE 0, "none", X)}

xcm_await_c(X, h, cond) ==
    IF ~Valid(X, h) THEN Undefined(X)
    ELSE IF cond \notin 0..(SO_RECEIVABLE + SO_SENDABLE + SO_ACCEPTABLE)
    THEN {Fail(X, "EINVAL")}
    ELSE {Out(0, "none", [X EXCEPT ![h].cond = cond])}

xcm_fd_c(X, h) ==
    IF ~Valid(X, h) THEN Undefined(X)
    ELSE {Out(h + 2, "none", X), Fail(X, "ENOENT")}

\* msg points to the caller's bytes, of which the library reads len.  A
\* message has at least one byte: a length of 0 on the receiving side is
\* the peer's shutdown, so the library takes no message of length 0.
xcm_send_c(X, h, msg, len) ==
    IF ~Valid(X, h) THEN Undefined(X)
    ELSE IF len > XCM_MAX_MSG THEN {Fail(X, "EMSGSIZE")}
    ELSE IF len = 0 THEN {Fail(X, "EINVAL")}
    ELSE IF X[h].phase = "pending" THEN {Fail(X, "EAGAIN")}
    ELSE IF X[h].eof THEN {Fail(X, "EPIPE")}
    ELSE LET p == X[h].peer IN
         IF p = None THEN {Out(0, "none", X)}
         ELSE IF Len(X[p].inq) >= MaxQueue
         THEN (IF X[h].blocking THEN {} ELSE {Fail(X, "EAGAIN")})
         ELSE {Out(0, "none", [X EXCEPT ![p].inq = Append(@, Slice(msg, len))])}

\* the library writes one whole message, cut to capacity, into the buffer
xcm_receive_c(X, h, capacity) ==
    IF ~Valid(X, h) THEN Undefined(X)
    ELSE IF X[h].phase = "pending" THEN {Fail(X, "EAGAIN")}
    ELSE IF X[h].inq # <<>>
    THEN LET m == Head(X[h].inq)
         IN  {[Out(IF BLen(m) < capacity THEN BLen(m) ELSE capacity, "none",
                   [X EXCEPT ![h].inq = Tail(@)])
               EXCEPT !.buf = Buffer(m, capacity)]}
    ELSE IF X[h].eof
    THEN {[Out(0, "none", X) EXCEPT !.buf = Buffer(EmptyBytes, capacity)]}
    ELSE IF X[h].blocking THEN {}
    ELSE {Fail(X, "EAGAIN")}

xcm_accept_c(X, h) ==
    IF ~Valid(X, h) THEN UndefinedPtr(X)
    ELSE IF X[h].backlog # <<>>
    THEN LET a == Head(X[h].backlog)
         IN  {[Out(0, "none", [X EXCEPT ![h].backlog = Tail(@), ![a].phase = "ready"])
               EXCEPT !.h = a]}
    ELSE IF X[h].blocking THEN {}
    ELSE {Fail(X, "EAGAIN")}

\* the attributes of a native socket: a type tag and the value's bytes
AttrNames ==
    {"xcm.blocking", "xcm.max_msg_size", "xcm.offset", "xcm.type", "dns.blob",
     "xcm.rate", "no.such"}

Attr(X, h, name) ==
    CASE name = "xcm.blocking" -> [tag |-> 1, raw |-> <<IF X[h].blocking THEN 1 ELSE 0>>, len |-> 1]
      [] name = "xcm.max_msg_size" -> [tag |-> 2, raw |-> <<255, 255, 0, 0, 0, 0, 0, 0>>, len |-> 8]
      [] name = "xcm.offset" -> [tag |-> 2, raw |-> <<254, 255, 255, 255, 255, 255, 255, 255>>, len |-> 8]
      [] name = "xcm.type" -> [tag |-> 3, raw |-> IF X[h].type = "server" THEN <<115, 0>> ELSE <<99, 0>>, len |-> 2]
      [] name = "dns.blob" -> [tag |-> 4, raw |-> <<7, 0, 9>>, len |-> 3]
      [] name = "xcm.rate" -> [tag |-> 5, raw |-> <<0, 0, 0, 0, 0, 0, 240, 63>>, len |-> 8]
      [] OTHER -> [tag |-> 0, raw |-> <<>>, len |-> 0]

xcm_attr_get_c(X, h, name, capacity) ==
    IF ~Valid(X, h) THEN Undefined(X)
    ELSE LET a == Attr(X, h, name) IN
         IF a.tag = 0 THEN {Fail(X, "ENOENT")}
         ELSE IF a.len > capacity THEN {Fail(X, "EOVERFLOW")}
         ELSE {[Out(a.len, "none", X) EXCEPT !.tag = a.tag, !.raw = a.raw]}

\* os.strerror
strerror(e) == <<"strerror", e>>

(* ----------------------- xcm.py: errors and results ------------------- *)

NoError == [exc |-> "none", errno |-> "none", strerror |-> <<>>]
AssertionError == [exc |-> "AssertionError", errno |-> "none", strerror |-> <<>>]
ValueError == [exc |-> "ValueError", errno |-> "none", strerror |-> <<>>]
\* the process is gone: the call neither returns nor raises
Died == [exc |-> "died", errno |-> "none", strerror |-> <<>>]

\* raise error(_errno, os.strerror(_errno)), _errno being ctypes' errno
\* as the failed native call left it
_raise_io_err(_errno) == [exc |-> "error", errno |-> _errno, strerror |-> strerror(_errno)]

\* the native call a method made
NoNative == [fn |-> "none", h |-> None, failed |-> FALSE, errno |-> "none"]
Native(fn, h, failed, r) ==
    [fn |-> fn, h |-> h, failed |-> failed /\ ~r.crash,
     errno |-> IF failed /\ ~r.crash THEN r.errno ELSE "none"]

NoRet == <<"none">>

Call(op, o, arg, exc, ret, n) ==
    [op |-> op, obj |-> o, arg |-> arg,
     was |-> IF o = None THEN None ELSE xcm_socket[o],
     exc |-> exc, ret |-> ret, native |-> n]

\* what was in flight to a released socket is gone
Pruned(log, X) == [k \in Handles |-> IF X[k].phase = "closed" THEN <<>> ELSE log[k]]

\* A method that made one native call with outcome r and then raised exc
\* or returned ret; the wrapper's own fields are set by the method.
Done(op, o, arg, fn, h, failed, r, exc, ret) ==
    /\ libxcm' = r.X
    /\ crashed' = r.crash
    /\ call' = Call(op, o, arg, IF r.crash THEN Died ELSE exc,
                    IF r.crash THEN NoRet ELSE ret, Native(fn, h, failed, r))

\* A method that made no native call
Local(op, o, arg, exc, ret) ==
    /\ call' = Call(op, o, arg, exc, ret, NoNative)
    /\ UNCHANGED <<libxcm, crashed>>

\* the object exists and the process lives
Alive(s) == kind[s] # "free" /\ ~torn[s] /\ ~crashed

(* ----------------------------- class Socket --------------------------- *)

\* a build whose assert statements do nothing
assure_open_off(s) == TRUE

\* assure_open_wrap's assert passes
_assure_open(s) == xcm_socket[s] # None

\* a close that forgets to set xcm_socket to None
Socket_close_keep(s, op) ==
    IF ~_assure_open(s)
    THEN /\ Local(op, s, <<>>, AssertionError, NoRet)
         /\ UNCHANGED <<xcm_socket, flight>>
    ELSE IF xcm_socket[s] # None
    THEN \E r \in xcm_close_c(libxcm, xcm_socket[s]) :
            /\ Done(op, s, <<>>, "xcm_close", xcm_socket[s], FALSE, r, NoError, NoRet)
            /\ flight' = Pruned(flight, r.X)
            /\ UNCHANGED xcm_socket
    ELSE /\ Local(op, s, <<>>, NoError, NoRet)
         /\ UNCHANGED <<xcm_socket, flight>>

\* a close that sets xcm_socket on the class, for every object, not on self
Socket_close_class(s, op) ==
    IF ~_assure_open(s)
    THEN /\ Local(op, s, <<>>, AssertionError, NoRet)
         /\ UNCHANGED <<xcm_socket, flight>>
    ELSE IF xcm_socket[s] # None
    THEN \E r \in xcm_close_c(libxcm, xcm_socket[s]) :
            /\ Done(op, s, <<>>, "xcm_close", xcm_socket[s], FALSE, r, NoError, NoRet)
            /\ xcm_socket' = [o \in Objs |-> IF r.crash THEN xcm_socket[o] ELSE None]
            /\ flight' = Pruned(flight, r.X)
    ELSE /\ Local(op, s, <<>>, NoError, NoRet)
         /\ UNCHANGED <<xcm_socket, flight>>

\* Socket.close, run under the method name op (close, or __del__ calling it)
Socket_close(s, op) ==
    IF ~_assure_open(s)
    THEN /\ Local(op, s, <<>>, AssertionError, NoRet)
         /\ UNCHANGED <<xcm_socket, flight>>
    ELSE IF xcm_socket[s] # None
    THEN \E r \in xcm_close_c(libxcm, xcm_socket[s]) :
            /\ Done(op, s, <<>>, "xcm_close", xcm_socket[s], FALSE, r, NoError, NoRet)
            /\ xcm_socket' = [xcm_socket EXCEPT ![s] = IF r.crash THEN @ ELSE None]
            /\ flight' = Pruned(flight, r.X)
    ELSE /\ Local(op, s, <<>>, NoError, NoRet)
         /\ UNCHANGED <<xcm_socket, flight>>

close(s) ==
    /\ Alive(s)
    /\ Socket_close(s, "close")
    /\ UNCHANGED <<kind, condition, made, torn>>

\* a __del__ that calls close() without looking at xcm_socket
del_unguarded(s) ==
    /\ Alive(s)
    /\ Socket_close(s, "__del__")
    /\ torn' = [torn EXCEPT ![s] = TRUE]
    /\ condition' = [condition EXCEPT ![s] = 0]
    /\ UNCHANGED <<kind, made>>

\* a __del__ that does not close
del_leaky(s) ==
    /\ Alive(s)
    /\ Local("__del__", s, <<>>, NoError, NoRet)
    /\ torn' = [torn EXCEPT ![s] = TRUE]
    /\ condition' = [condition EXCEPT ![s] = 0]
    /\ UNCHANGED <<kind, made, xcm_socket, flight>>

\* Socket.__del__; an exception raised in it is printed and dropped.  The
\* object is gone afterwards: no method is called on it again, and its
\* cached mask is forgotten.
__del__(s) ==
    /\ Alive(s)
    /\ IF xcm_socket[s] # None
       THEN Socket_close(s, "__del__")
       ELSE /\ Local("__del__", s, <<>>, NoError, NoRet)
            /\ UNCHANGED <<xcm_socket, flight>>
    /\ torn' = [torn EXCEPT ![s] = TRUE]
    /\ condition' = [condition EXCEPT ![s] = 0]
    /\ UNCHANGED <<kind, made>>

finish(s) ==
    /\ Alive(s)
    /\ IF ~_assure_open(s)
       THEN Local("finish", s, <<>>, AssertionError, NoRet)
       ELSE \E r \in xcm_finish_c(libxcm, xcm_socket[s]) :
               Done("finish", s, <<>>, "xcm_finish", xcm_socket[s], r.rc < 0, r,
                    IF r.rc < 0 THEN _raise_io_err(r.errno) ELSE NoError, NoRet)
    /\ UNCHANGED <<kind, xcm_socket, condition, made, torn, flight>>

set_blocking(s, val) ==
    /\ Alive(s)
    /\ IF ~_assure_open(s)
       THEN Local("set_blocking", s, <<val>>, AssertionError, NoRet)
       ELSE \E r \in xcm_set_blocking_c(libxcm, xcm_socket[s], val) :
               Done("set_blocking", s, <<val>>, "xcm_set_blocking", xcm_socket[s],
                    r.rc < 0, r, NoError, NoRet)
    /\ UNCHANGED <<kind, xcm_socket, condition, made, torn, flight>>

\* an is_blocking that calls xcm_set_blocking_c(self.xcm_socket, True)
is_blocking_sets(s) ==
    /\ Alive(s)
    /\ IF ~_assure_open(s)
       THEN Local("is_blocking", s, <<>>, AssertionError, NoRet)
       ELSE \E r \in xcm_set_blocking_c(libxcm, xcm_socket[s], TRUE) :
               Done("is_blocking", s, <<>>, "xcm_set_blocking", xcm_socket[s], FALSE, r,
                    NoError, <<"bool", r.rc # 0>>)
    /\ UNCHANGED <<kind, xcm_socket, condition, made, torn, flight>>

is_blocking(s) ==
    /\ Alive(s)
    /\ IF ~_assure_open(s)
       THEN Local("is_blocking", s, <<>>, AssertionError, NoRet)
       ELSE \E r \in xcm_is_blocking_c(libxcm, xcm_socket[s]) :
               Done("is_blocking", s, <<>>, "xcm_is_blocking", xcm_socket[s], FALSE, r,
                    NoError, <<"bool", r.rc # 0>>)
    /\ UNCHANGED <<kind, xcm_socket, condition, made, torn, flight>>

\* an update without the comparison with the cached mask
update_always(s, cond) ==
    /\ Alive(s)
    /\ IF ~_assure_open(s)
       THEN /\ Local("update", s, <<cond>>, AssertionError, NoRet)
            /\ UNCHANGED condition
       ELSE \E r \in xcm_await_c(libxcm, xcm_socket[s], cond) :
               /\ Done("update", s, <<cond>>, "xcm_await", xcm_socket[s], r.rc < 0, r,
                       IF r.rc < 0 THEN ValueError ELSE NoError, NoRet)
               /\ condition' = [condition EXCEPT
                                   ![s] = IF r.rc < 0 \/ r.crash THEN @ ELSE cond]
    /\ UNCHANGED <<kind, xcm_socket, made, torn, flight>>

\* an update that only records the mask and leaves the native call out
update_cache_only(s, cond) ==
    /\ Alive(s)
    /\ IF ~_assure_open(s)
       THEN /\ Local("update", s, <<cond>>, AssertionError, NoRet)
            /\ UNCHANGED condition
       ELSE /\ Local("update", s, <<cond>>, NoError, NoRet)
            /\ condition' = [condition EXCEPT ![s] = cond]
    /\ UNCHANGED <<kind, xcm_socket, made, torn, flight>>

\* an update that caches the mask before it looks at the return code
update_cache_first(s, cond) ==
    /\ Alive(s)
    /\ IF ~_assure_open(s)
       THEN /\ Local("update", s, <<cond>>, AssertionError, NoRet)
            /\ UNCHANGED condition
       ELSE IF cond # condition[s]
       THEN \E r \in xcm_await_c(libxcm, xcm_socket[s], cond) :
               /\ Done("update", s, <<cond>>, "xcm_await", xcm_socket[s], r.rc < 0, r,
                       IF r.rc < 0 THEN ValueError ELSE NoError, NoRet)
               /\ condition' = [condition EXCEPT ![s] = IF r.crash THEN @ ELSE cond]
       ELSE /\ Local("update", s, <<cond>>, NoError, NoRet)
            /\ UNCHANGED condition
    /\ UNCHANGED <<kind, xcm_socket, made, torn, flight>>

update(s, cond) ==
    /\ Alive(s)
    /\ IF ~_assure_open(s)
       THEN /\ Local("update", s, <<cond>>, AssertionError, NoRet)
            /\ UNCHANGED condition
       ELSE IF cond # condition[s]
       THEN \E r \in xcm_await_c(libxcm, xcm_socket[s], cond) :
               /\ Done("update", s, <<cond>>, "xcm_await", xcm_socket[s], r.rc < 0, r,
                       IF r.rc < 0 THEN ValueError ELSE NoError, NoRet)
               /\ condition' = [condition EXCEPT
                                   ![s] = IF r.rc < 0 \/ r.crash THEN @ ELSE cond]
       ELSE /\ Local("update", s, <<cond>>, NoError, NoRet)
            /\ UNCHANGED condition
    /\ UNCHANGED <<kind, xcm_socket, made, torn, flight>>

fileno(s) ==
    /\ Alive(s)
    /\ IF ~_assure_open(s)
       THEN Local("fileno", s, <<>>, AssertionError, NoRet)
       ELSE \E r \in xcm_fd_c(libxcm, xcm_socket[s]) :
               Done("fileno", s, <<>>, "xcm_fd", xcm_socket[s], r.rc < 0, r,
                    IF r.rc < 0 THEN _raise_io_err(r.errno) ELSE NoError,
                    IF r.rc < 0 THEN NoRet ELSE <<"int", r.rc>>)
    /\ UNCHANGED <<kind, xcm_socket, condition, made, torn, flight>>

\* the byte at 0-based offset i of a zero-filled buffer that starts with raw
ByteAt(raw, i) == IF i < Len(raw) THEN raw[i + 1] ELSE 0

\* the integer the bytes b[1..n] spell, least significant byte first
RECURSIVE LittleEndian(_, _)
LittleEndian(b, n) == IF n = 0 THEN 0 ELSE LittleEndian(b, n - 1) * 256 + b[n]
\* the length of b without its trailing zero bytes
RECURSIVE Significant(_, _)
Significant(b, n) == IF n = 0 \/ b[n] # 0 THEN n ELSE Significant(b, n - 1)

\* cast(raw, POINTER(c_long)).contents.value: eight bytes, two's complement
c_long_value(raw) ==
    LET b == [i \in 1..8 |-> ByteAt(raw, i - 1)]
        inv == [i \in 1..8 |-> 255 - b[i]]
    IN  IF b[8] >= 128 THEN 0 - LittleEndian(inv, Significant(inv, 8)) - 1
        ELSE LittleEndian(b, Significant(b, 8))

\* create_string_buffer(...).value: the bytes before the first zero byte
RECURSIVE c_string(_, _)
c_string(raw, i) ==
    IF ByteAt(raw, i) = 0 THEN <<>> ELSE <<ByteAt(raw, i)>> \o c_string(raw, i + 1)

\* bytes.decode('utf-8') of one-byte code points; other bytes do not occur
\* in the attributes of this model
decode_utf8(b) == [i \in 1..Len(b) |-> b[i] % 128]

\* a _conv_attr that hands back the bytes whatever the tag says
conv_attr_untagged(attr_type, attr_value, attr_len) ==
    [exc |-> NoError, ret |-> <<"bin", [i \in 1..attr_len |-> ByteAt(attr_value, i - 1)]>>]

\* what _conv_attr returns, or the exception it raises
_conv_attr(attr_type, attr_value, attr_len) ==
    IF attr_type = ATTR_TYPE_BOOL
    THEN [exc |-> NoError, ret |-> <<"bool", ByteAt(attr_value, 0) # 0>>]
    ELSE IF attr_type = ATTR_TYPE_INT64
    THEN [exc |-> NoError, ret |-> <<"int", c_long_value(attr_value)>>]
    ELSE IF attr_type = ATTR_TYPE_STR
    THEN [exc |-> NoError, ret |-> <<"str", decode_utf8(c_string(attr_value, 0))>>]
    ELSE IF attr_type = ATTR_TYPE_BIN
    THEN [exc |-> NoError, ret |-> <<"bin", [i \in 1..attr_len |-> ByteAt(attr_value, i - 1)]>>]
    ELSE [exc |-> ValueError, ret |-> NoRet]

get_attr(s, attr_name) ==
    /\ Alive(s)
    /\ IF ~_assure_open(s)
       THEN Local("get_attr", s, <<attr_name>>, AssertionError, NoRet)
       ELSE \E r \in xcm_attr_get_c(libxcm, xcm_socket[s], attr_name, attr_capacity) :
               LET conv == _conv_attr(r.tag, r.raw, r.rc)
               IN  Done("get_attr", s, <<attr_name>>, "xcm_attr_get", xcm_socket[s],
                        r.rc < 0, r,
                        IF r.rc < 0 THEN _raise_io_err(r.errno) ELSE conv.exc,
                        IF r.rc < 0 THEN NoRet ELSE conv.ret)
    /\ UNCHANGED <<kind, xcm_socket, condition, made, torn, flight>>

(* ------------------ ConnectionSocket and ServerSocket ----------------- *)

FreeObjs == {o \in Objs : kind[o] = "free"}

\* Socket.__init__ of a new object of class cls around handle h
Construct(o, cls, h) ==
    /\ kind' = [kind EXCEPT ![o] = cls]
    /\ xcm_socket' = [xcm_socket EXCEPT ![o] = h]
    /\ condition' = [condition EXCEPT ![o] = 0]
    /\ made' = [made EXCEPT ![o] = h]

\* the native socket at the other end of s's connection, None for a
\* remote process
Peer(s) == IF xcm_socket[s] = None THEN None ELSE libxcm[xcm_socket[s]].peer

\* a send that cuts the length to MAX_MSG
send_len_clamped(msg) == IF BLen(msg) < MAX_MSG THEN BLen(msg) ELSE MAX_MSG

\* the length send passes to the library: len(msg)
send_len(msg) == BLen(msg)

\* a send that drops the return code
send_unchecked(rc, _errno) == NoError

\* send's check of the return code
send_check(rc, _errno) == IF rc < 0 THEN _raise_io_err(_errno) ELSE NoError

send(s, msg) ==
    /\ Alive(s)
    /\ kind[s] = "ConnectionSocket"
    /\ \E r \in xcm_send_c(libxcm, xcm_socket[s], msg, send_len(msg)) :
          LET exc == send_check(r.rc, r.errno)
              ok == exc = NoError /\ ~r.crash
          IN  /\ Done("send", s, <<msg>>, "xcm_send", xcm_socket[s], r.rc < 0, r,
                      exc, IF exc = NoError THEN <<"int", 0>> ELSE NoRet)
              /\ flight' = IF ok /\ Peer(s) # None
                           THEN [flight EXCEPT ![Peer(s)] = Append(@, msg)]
                           ELSE flight
    /\ UNCHANGED <<kind, xcm_socket, condition, made, torn>>

\* bytes(buf.raw), the whole buffer
receive_unsliced(buf, rc) == buf

\* bytes(buf.raw[:rc - 1]), one byte short
receive_one_short(buf, rc) == Slice(buf, rc - 1)

\* bytes(buf.raw[:rc])
receive_result(buf, rc) == Slice(buf, rc)

\* a receive that drops the return code
receive_unchecked(rc, _errno) == NoError

\* receive's check of the return code
receive_check(rc, _errno) == IF rc < 0 THEN _raise_io_err(_errno) ELSE NoError

receive(s) ==
    /\ Alive(s)
    /\ kind[s] = "ConnectionSocket"
    /\ \E r \in xcm_receive_c(libxcm, xcm_socket[s], MAX_MSG) :
          LET h == xcm_socket[s]
              took == h # None /\ Len(r.X[h].inq) < Len(libxcm[h].inq)
          IN  /\ Done("receive", s, <<>>, "xcm_receive", h, r.rc < 0, r,
                      receive_check(r.rc, r.errno),
                      IF r.rc < 0 THEN NoRet ELSE <<"bytes", receive_result(r.buf, r.rc)>>)
              /\ flight' = IF took /\ flight[h] # <<>>
                           THEN [flight EXCEPT ![h] = Tail(@)]
                           ELSE flight
    /\ UNCHANGED <<kind, xcm_socket, condition, made, torn>>

\* an accept without the test of the returned pointer: it wraps NULL too
accept_wraps_null(s) ==
    /\ Alive(s)
    /\ kind[s] = "ServerSocket"
    /\ \E r \in xcm_accept_c(libxcm, xcm_socket[s]) :
          /\ FreeObjs # {}
          /\ Construct(Min(FreeObjs), "ConnectionSocket", r.h)
          /\ Done("accept", s, <<>>, "xcm_accept", xcm_socket[s], r.h = None, r,
                  NoError, <<"obj", Min(FreeObjs)>>)
    /\ UNCHANGED <<torn, flight>>

accept(s) ==
    /\ Alive(s)
    /\ kind[s] = "ServerSocket"
    /\ \E r \in xcm_accept_c(libxcm, xcm_socket[s]) :
          IF r.h # None
          THEN /\ FreeObjs # {}
               /\ Construct(Min(FreeObjs), "ConnectionSocket", r.h)
               /\ Done("accept", s, <<>>, "xcm_accept", xcm_socket[s], FALSE, r,
                       NoError, <<"obj", Min(FreeObjs)>>)
          ELSE /\ Done("accept", s, <<>>, "xcm_accept", xcm_socket[s], TRUE, r,
                       _raise_io_err(r.errno), NoRet)
               /\ UNCHANGED <<kind, xcm_socket, condition, made>>
    /\ UNCHANGED <<torn, flight>>

(* --------------------------- connect, server -------------------------- *)

connect(addr, flags) ==
    /\ ~crashed
    /\ \E r \in xcm_connect_c(libxcm, addr, flags) :
          IF r.h # None
          THEN /\ FreeObjs # {}
               /\ Construct(Min(FreeObjs), "ConnectionSocket", r.h)
               /\ Done("connect", None, <<addr, flags>>, "xcm_connect", None, FALSE, r,
                       NoError, <<"obj", Min(FreeObjs)>>)
          ELSE /\ Done("connect", None, <<addr, flags>>, "xcm_connect", None, TRUE, r,
                       _raise_io_err(r.errno), NoRet)
               /\ UNCHANGED <<kind, xcm_socket, condition, made>>
    /\ UNCHANGED <<torn, flight>>

server(addr) ==
    /\ ~crashed
    /\ \E r \in xcm_server_c(libxcm, addr) :
          IF r.h # None
          THEN /\ FreeObjs # {}
               /\ Construct(Min(FreeObjs), "ServerSocket", r.h)
               /\ Done("server", None, <<addr>>, "xcm_server", None, FALSE, r,
                       NoError, <<"obj", Min(FreeObjs)>>)
          ELSE /\ Done("server", None, <<addr>>, "xcm_server", None, TRUE, r,
                       _raise_io_err(r.errno), NoRet)
               /\ UNCHANGED <<kind, xcm_socket, condition, made>>
    /\ UNCHANGED <<torn, flight>>

(* --------------------- processes at the other end --------------------- *)

\* a step of a remote process, not a call of this program
Remote(what, h) ==
    [op |-> what, obj |-> None, arg |-> <<h>>, was |-> None, exc |-> NoError,
     ret |-> NoRet, native |-> NoNative]

\* a remote process connects to the listener
RemoteConnect ==
    /\ ~crashed
    /\ Listening(libxcm) # {}
    /\ FreeHandles(libxcm) # {}
    /\ LET p == Min(FreeHandles(libxcm))
           l == Min(Listening(libxcm))
       IN  /\ libxcm' = [libxcm EXCEPT ![p] = [Unused EXCEPT !.phase = "backlog"],
                                       ![l].backlog = Append(@, p)]
           /\ call' = Remote("remote connect", p)
    /\ UNCHANGED <<kind, xcm_socket, condition, made, torn, flight, crashed>>

\* the native sockets whose peer is a remote process
RemoteEnds ==
    {h \in Handles : /\ libxcm[h].phase \in {"backlog", "ready"}
                     /\ libxcm[h].type = "conn"
                     /\ libxcm[h].peer = None
                     /\ ~libxcm[h].eof}

\* a remote process sends a message
RemoteSend(h, msg) ==
    /\ ~crashed
    /\ h \in RemoteEnds
    /\ BLen(msg) \in 1..XCM_MAX_MSG
    /\ Len(libxcm[h].inq) < MaxQueue
    /\ libxcm' = [libxcm EXCEPT ![h].inq = Append(@, msg)]
    /\ flight' = [flight EXCEPT ![h] = Append(@, msg)]
    /\ call' = Remote("remote send", h)
    /\ UNCHANGED <<kind, xcm_socket, condition, made, torn, crashed>>

\* a remote process closes its end
RemoteClose(h) ==
    /\ ~crashed
    /\ h \in RemoteEnds
    /\ libxcm' = [libxcm EXCEPT ![h].eof = TRUE]
    /\ call' = Remote("remote close", h)
    /\ UNCHANGED <<kind, xcm_socket, condition, made, torn, flight, crashed>>

(* ---------------------------- specification --------------------------- *)

Init ==
    /\ kind = [o \in Objs |-> "free"]
    /\ xcm_socket = [o \in Objs |-> None]
    /\ condition = [o \in Objs |-> 0]
    /\ made = [o \in Objs |-> None]
    /\ torn = [o \in Objs |-> FALSE]
    /\ libxcm = [h \in Handles |-> Unused]
    /\ flight = [h \in Handles |-> <<>>]
    /\ call = Remote("start", None)
    /\ crashed = FALSE

\* The life of the sockets: every method of the wrapper, in any order, on
\* a listener, an outbound connection and the connection accepted from it.
\* No payload travels here (the one message offered is refused for its
\* size); message transfer is the business of SpecMsg.
Next ==
    \/ \E s \in Objs : close(s)
    \/ \E s \in Objs : __del__(s)
    \/ \E s \in Objs : finish(s)
    \/ \E s \in Objs, val \in BOOLEAN : set_blocking(s, val)
    \/ \E s \in Objs : is_blocking(s)
    \/ \E s \in Objs, cond \in Masks : update(s, cond)
    \/ \E s \in Objs : fileno(s)
    \/ \E s \in Objs, attr_name \in {"xcm.blocking", "no.such"} : get_attr(s, attr_name)
    \/ \E s \in Objs : send(s, TooLong)
    \/ \E s \in Objs : receive(s)
    \/ \E s \in Objs : accept(s)
    \/ \E addr \in Addrs, flags \in {0, NONBLOCK} : connect(addr, flags)
    \/ \E addr \in Addrs : server(addr)

Spec == Init /\ [][Next]_vars

\* Message transfer: the calls that set up, use and end a connection, in
\* blocking and in non-blocking mode, with a short message, one of exactly
\* MAX_MSG bytes and one that is a byte longer.
NextMsg ==
    \/ \E addr \in Addrs : server(addr)
    \/ \E addr \in Addrs : connect(addr, 0)
    \/ \E s \in Objs : accept(s)
    \/ \E s \in Objs, val \in BOOLEAN : set_blocking(s, val)
    \/ \E s \in Objs, msg \in {Small, Full, TooLong} : send(s, msg)
    \/ \E s \in Objs : receive(s)
    \/ \E s \in Objs : close(s)

SpecMsg == Init /\ [][NextMsg]_vars

\* A listener that remote processes connect to, and the connections
\* accepted from it, each with a readiness mask and messages waiting.
NextRemote ==
    \/ \E addr \in Addrs : server(addr)
    \/ \E s \in Objs : accept(s)
    \/ \E s \in Objs : update(s, SO_RECEIVABLE)
    \/ \E s \in Objs : close(s)
    \/ RemoteConnect
    \/ \E h \in Handles : RemoteSend(h, Small)
    \/ \E h \in Handles : RemoteClose(h)

SpecRemote == Init /\ [][NextRemote]_vars

\* Connections made with the non-blocking flag: pending until finish()
\* has driven them to completion, with the calls made on them meanwhile.
NextPending ==
    \/ \E addr \in Addrs : server(addr)
    \/ \E addr \in Addrs : connect(addr, NONBLOCK)
    \/ \E s \in Objs : accept(s)
    \/ \E s \in Objs : finish(s)
    \/ \E s \in Objs : update(s, SO_SENDABLE)
    \/ \E s \in Objs : send(s, Small)
    \/ \E s \in Objs : receive(s)
    \/ \E s \in Objs : close(s)

SpecPending == Init /\ [][NextPending]_vars

\* The end of a connection: either side closes while messages, an empty
\* one among those offered, are sent and received in both modes.
NextShut ==
    \/ \E addr \in Addrs : server(addr)
    \/ \E addr \in Addrs : connect(addr, 0)
    \/ \E s \in Objs : accept(s)
    \/ \E s \in Objs : set_blocking(s, FALSE)
    \/ \E s \in Objs, msg \in {Small, EmptyBytes} : send(s, msg)
    \/ \E s \in Objs : receive(s)
    \/ \E s \in Objs : close(s)

SpecShut == Init /\ [][NextShut]_vars

\* Attributes of every type, and one of an unknown type, are read on a
\* listener and on a connection in both modes.
NextAttr ==
    \/ \E addr \in Addrs : server(addr)
    \/ \E addr \in Addrs : connect(addr, 0)
    \/ \E s \in Objs : set_blocking(s, FALSE)
    \/ \E s \in Objs, attr_name \in AttrNames : get_attr(s, attr_name)
    \/ \E s \in Objs : close(s)

SpecAttr == Init /\ [][NextAttr]_vars

\* The accessors: an attribute, the descriptor and the mode are read on
\* a listener and on both ends of an open connection, with a mask set, in
\* both modes and with messages waiting.
NextRead ==
    \/ \E addr \in Addrs : server(addr)
    \/ \E addr \in Addrs : connect(addr, 0)
    \/ \E s \in Objs : accept(s)
    \/ \E s \in Objs : set_blocking(s, FALSE)
    \/ \E s \in Objs : update(s, SO_RECEIVABLE)
    \/ \E s \in Objs : send(s, Small)
    \/ \E s \in Objs, attr_name \in {"xcm.blocking", "no.such"} : get_attr(s, attr_name)
    \/ \E s \in Objs : fileno(s)
    \/ \E s \in Objs : is_blocking(s)

SpecRead == Init /\ [][NextRead]_vars

(* ------------------------------- claims ------------------------------- *)

\* the last call was method op on an object whose handle was already None
OnClosed(op) == call.op = op /\ call.obj # None /\ call.was = None
\* the last call was method op on an object that held a handle
OnOpen(op) == call.op = op /\ call.obj # None /\ call.was # None

\* C1: after close(), each of send, receive, accept, get_attr and update on
\* that object raises a usage error (the assertion of _assure_open) and
\* makes no native call; in particular none passes the None handle to the
\* native library.
C1_ClosedHandleRejected ==
    \A op \in {"send", "receive", "accept", "get_attr", "update"} :
        OnClosed(op) => call.exc = AssertionError /\ call.native.fn = "none"

\* C2: closed is absorbing: a step that is a close() returning normally
\* leaves the object's handle None, and no step of any method gives a
\* handle back to an object whose handle is None.
C2_ClosedIsAbsorbing ==
    [][\A s \in Objs :
          (\/ kind[s] # "free" /\ xcm_socket[s] = None
           \/ call'.op = "close" /\ call'.obj = s /\ call'.exc = NoError)
          => xcm_socket'[s] = None]_vars

\* a method was called on a closed object after its close
C2_Witness ==
    \E s \in Objs : /\ OnClosed("receive") /\ call.obj = s
                    /\ kind[s] = "ConnectionSocket" /\ xcm_socket[s] = None /\ ~torn[s]

\* C3: the native close runs at most once per native socket, and a
\* teardown of an object that was closed before makes no native call and
\* raises nothing.
C3_AtMostOneNativeClose ==
    /\ \A h \in Handles : libxcm[h].closes <= 1
    /\ OnClosed("__del__") => call.native.fn = "none" /\ call.exc = NoError

\* a teardown ran on an object whose handle an explicit close had released
C3_Witness ==
    /\ OnClosed("__del__")
    /\ torn[call.obj]
    /\ libxcm[made[call.obj]].closes = 1

\* C4: every object that was torn down holds no handle and the native
\* socket it was made with is released; a teardown of an object that still
\* held its handle called the native close on that handle.
C4_TeardownReleases ==
    /\ \A s \in Objs : torn[s] => /\ xcm_socket[s] = None
                                  /\ libxcm[made[s]].phase = "closed"
    /\ OnOpen("__del__") => /\ call.native.fn = "xcm_close"
                            /\ call.native.h = call.was

\* a teardown ran on an object that was still open, and released its handle
C4_Witness ==
    /\ OnOpen("__del__")
    /\ torn[call.obj]
    /\ libxcm[call.was].phase = "closed"

\* C5: close() on an object whose handle is already None raises (the
\* assertion of _assure_open) and does not call the native close.
C5_DoubleCloseRejected ==
    OnClosed("close") => call.exc = AssertionError /\ call.native.fn = "none"

\* close() was called on a closed object
C5_Witness == OnClosed("close") /\ libxcm[made[call.obj]].closes = 1

\* C6: update(m) on an open object whose cached mask is m makes no native
\* call, raises nothing and changes nothing; and an update(m) that returned
\* normally leaves m cached, so the next update(m) is such a call.
C6_UpdateIdempotent ==
    [][/\ \A s \in Objs :
            (/\ call'.op = "update" /\ call'.obj = s
             /\ xcm_socket[s] # None
             /\ call'.arg = <<condition[s]>>)
            => /\ call'.native.fn = "none"
               /\ call'.exc = NoError
               /\ UNCHANGED <<kind, xcm_socket, condition, made, torn, libxcm, flight, crashed>>
       /\ (call'.op = "update" /\ call'.exc = NoError)
            => call'.arg = <<condition'[call'.obj]>>]_vars

\* update was called with the mask an earlier update had registered
C6_Witness ==
    /\ OnOpen("update")
    /\ call.arg = <<SO_RECEIVABLE>>
    /\ call.native.fn = "none"
    /\ condition[call.obj] = SO_RECEIVABLE
    /\ libxcm[call.was].cond = SO_RECEIVABLE

\* C7: a method whose native call reported failure raises xcm.error with
\* the errno of that call and its strerror text.
C7_NativeFailureRaisesErrno ==
    call.native.failed => call.exc = _raise_io_err(call.native.errno)

\* the last step was method op on s returning normally
Returned(op, s) == call'.op = op /\ call'.obj = s /\ call'.exc = NoError

\* C8: a receive() that finds a message on the connection returns exactly
\* that one message, whole, and takes nothing else off the connection; a
\* send(m) that returns normally with m of at most 65535 bytes puts exactly
\* m, as one message, behind the messages already on the way to the peer.
C8_MessageBoundaries ==
    [][\A s \in Objs :
          LET h == xcm_socket[s] IN
          /\ (Returned("receive", s) /\ h # None /\ libxcm[h].inq # <<>>)
               => /\ call'.ret = <<"bytes", Head(libxcm[h].inq)>>
                  /\ libxcm'[h].inq = Tail(libxcm[h].inq)
          /\ (Returned("send", s) /\ h # None /\ libxcm[h].peer # None)
               => /\ BLen(call'.arg[1]) <= MAX_MSG
                  /\ libxcm'[libxcm[h].peer].inq
                        = Append(libxcm[libxcm[h].peer].inq, call'.arg[1])]_vars

\* receive() returned a message of exactly 65535 bytes that the peer sent
C8_Witness ==
    /\ OnOpen("receive")
    /\ call.exc = NoError
    /\ call.ret = <<"bytes", Full>>
    /\ libxcm[libxcm[call.was].peer].phase \in {"ready", "closed"}

\* C9: the messages that send() accepted and the peer has not received yet
\* come out of the peer's receive() oldest first: a receive() that finds a
\* message returns the oldest message sent and not yet received; a send or
\* receive that raised, would-block included, changes neither the messages
\* on the way nor their order.
C9_FifoPerConnection ==
    [][\A s \in Objs :
          LET h == xcm_socket[s] IN
          /\ (Returned("receive", s) /\ h # None /\ libxcm[h].inq # <<>>)
               => /\ flight[h] # <<>>
                  /\ call'.ret = <<"bytes", Head(flight[h])>>
                  /\ flight'[h] = Tail(flight[h])
          /\ (/\ call'.op \in {"send", "receive"} /\ call'.obj = s
              /\ call'.exc.exc = "error")
               => flight' = flight /\ libxcm' = libxcm]_vars

\* two different messages were on the way and receive() returned the first
C9_Witness ==
    /\ OnOpen("receive")
    /\ call.exc = NoError
    /\ call.ret = <<"bytes", Small>>
    /\ flight[call.was] = <<Full>>

\* C10: send() of a message longer than 65535 bytes on an open connection
\* socket raises xcm.error with EMSGSIZE and changes nothing: not the
\* messages on the way, not the native sockets, not the wrapper objects.
C10_OversizeRejected ==
    [][\A s \in Objs :
          (/\ call'.op = "send" /\ call'.obj = s
           /\ xcm_socket[s] # None
           /\ BLen(call'.arg[1]) > MAX_MSG)
          => /\ call'.exc = _raise_io_err("EMSGSIZE")
             /\ UNCHANGED <<kind, xcm_socket, condition, made, torn, libxcm, flight, crashed>>]_vars

\* a message of 65536 bytes was refused while another message was on the way
C10_Witness ==
    /\ OnOpen("send")
    /\ call.arg = <<TooLong>>
    /\ call.exc.errno = "EMSGSIZE"
    /\ libxcm[call.was].peer # None
    /\ libxcm[libxcm[call.was].peer].inq = <<Small>>

\* C11: receive() on an open connection socket in non-blocking mode with no
\* message there and the peer still connected raises xcm.error with EAGAIN,
\* makes exactly that one native call and changes nothing, so the socket
\* stays open and usable; and a receive() on an open socket that holds a
\* message, in either mode, raises nothing and returns that message.
C11_WouldBlockRoundTrip ==
    [][\A s \in Objs :
          LET h == xcm_socket[s] IN
          (call'.op = "receive" /\ call'.obj = s /\ h # None /\ libxcm[h].phase = "ready")
          => /\ (~libxcm[h].blocking /\ libxcm[h].inq = <<>> /\ ~libxcm[h].eof)
                  => /\ call'.exc = _raise_io_err("EAGAIN")
                     /\ call'.native.fn = "xcm_receive"
                     /\ UNCHANGED <<kind, xcm_socket, condition, made, torn,
                                    libxcm, flight, crashed>>
             /\ libxcm[h].inq # <<>>
                  => /\ call'.exc = NoError
                     /\ call'.ret = <<"bytes", Head(libxcm[h].inq)>>]_vars

\* receive() raised would-block on a non-blocking socket that is still
\* open, with its peer connected and nothing on the way to it
C11_Witness ==
    /\ OnOpen("receive")
    /\ call.exc = _raise_io_err("EAGAIN")
    /\ xcm_socket[call.obj] = call.was
    /\ libxcm[call.was].phase = "ready"
    /\ ~libxcm[call.was].blocking
    /\ ~libxcm[call.was].eof
    /\ libxcm[call.was].peer # None
    /\ libxcm[libxcm[call.was].peer].phase = "ready"

\* C12: accept() returns a new object around a handle no other object has
\* or had; and a close() of one object changes nothing of another
\* connection socket that is not the other end of the same connection: not
\* its handle, not its cached mask, not its native socket with the
\* messages waiting there, not the messages on the way to it.  Two sockets
\* accepted from one listener are never the two ends of one connection,
\* and neither is the listener.
C12_AcceptIndependence ==
    [][/\ \A s \in Objs :
            (call'.op = "accept" /\ call'.obj = s /\ call'.exc = NoError)
            => LET o == call'.ret[2] IN
               /\ kind[o] = "free"
               /\ kind'[o] = "ConnectionSocket"
               /\ xcm_socket'[o] # None
               /\ \A t \in Objs \ {o} :
                     kind[t] # "free" => xcm_socket'[o] \notin {made[t], xcm_socket[t]}
       /\ \A s, t \in Objs :
            (/\ s # t
             /\ call'.op = "close" /\ call'.obj = s
             /\ kind[t] = "ConnectionSocket"
             /\ xcm_socket[t] # None
             /\ libxcm[xcm_socket[t]].peer = None \/ libxcm[xcm_socket[t]].peer # xcm_socket[s])
            => /\ xcm_socket'[t] = xcm_socket[t]
               /\ condition'[t] = condition[t]
               /\ libxcm'[xcm_socket[t]] = libxcm[xcm_socket[t]]
               /\ flight'[xcm_socket[t]] = flight[xcm_socket[t]]]_vars

\* of two open sockets accepted from the one listener, which is still
\* open, one was closed; the other is open with its mask and its message
C12_Witness ==
    \E l, s, t \in Objs :
        /\ kind[l] = "ServerSocket" /\ xcm_socket[l] # None
        /\ kind[s] = "ConnectionSocket" /\ kind[t] = "ConnectionSocket" /\ s # t
        /\ call.op = "close" /\ call.obj = s /\ call.exc = NoError
        /\ call.was # None /\ xcm_socket[s] = None
        /\ xcm_socket[t] # None
        /\ condition[t] = SO_RECEIVABLE
        /\ libxcm[xcm_socket[t]].inq = <<Small>>
        /\ flight[xcm_socket[t]] = <<Small>>

\* C13: is_blocking() called on an open socket right after a
\* set_blocking(v) on it that returned without raising returns v (the
\* claim with no other operation in between).
C13_IsBlockingReflectsMode ==
    [][(/\ call.op = "set_blocking" /\ call.obj # None /\ call.was # None
        /\ call.exc = NoError
        /\ call'.op = "is_blocking" /\ call'.obj = call.obj)
       => call'.ret = <<"bool", call.arg[1]>>]_vars

\* C14: a connect, a server, or an accept on an open server socket, whose
\* native call returned NULL raises xcm.error with that call's errno,
\* returns nothing and changes no wrapper object (none is made, and the
\* server socket used keeps its handle and mask); one whose native call
\* returned a handle raises nothing and returns a new object of the right
\* class that holds a live handle, leaving the other objects as they were.
C14_NullHandleRaises ==
    [][\A op \in {"connect", "server", "accept"} :
          (call'.op = op /\ (op = "accept" => call'.was # None))
          => IF call'.native.failed
             THEN /\ call'.exc = _raise_io_err(call'.native.errno)
                  /\ call'.ret = NoRet
                  /\ UNCHANGED <<kind, xcm_socket, condition, made, torn, flight>>
             ELSE /\ call'.exc = NoError
                  /\ call'.ret[1] = "obj"
                  /\ LET o == call'.ret[2] IN
                     /\ kind[o] = "free"
                     /\ kind'[o] = IF op = "server" THEN "ServerSocket"
                                                    ELSE "ConnectionSocket"
                     /\ xcm_socket'[o] # None
                     /\ libxcm'[xcm_socket'[o]].phase \in {"pending", "ready"}
                     /\ \A t \in Objs \ {o} : /\ kind'[t] = kind[t]
                                               /\ xcm_socket'[t] = xcm_socket[t]
                                               /\ condition'[t] = condition[t]]_vars

\* accept raised would-block on an open, non-blocking server socket, which
\* is still open and is the only object there is
C14_Witness ==
    /\ OnOpen("accept")
    /\ call.exc = _raise_io_err("EAGAIN")
    /\ call.ret = NoRet
    /\ xcm_socket[call.obj] = call.was
    /\ libxcm[call.was].phase = "ready"
    /\ \A o \in Objs \ {call.obj} : kind[o] = "free"

\* C15: an update(m) on an open socket whose native call refused the mask
\* raises ValueError and changes nothing: the handle, the cached mask and
\* the native socket are as before, so that an update with the mask cached
\* before is still answered from the cache.
C15_RejectedMaskLeavesState ==
    [][\A s \in Objs :
          (/\ call'.op = "update" /\ call'.obj = s
           /\ xcm_socket[s] # None
           /\ call'.native.failed)
          => /\ call'.exc = ValueError
             /\ call'.arg # <<condition[s]>>
             /\ UNCHANGED <<kind, xcm_socket, condition, made, torn,
                            libxcm, flight, crashed>>]_vars

\* update(8) was refused on an open socket subscribed to SO_RECEIVABLE,
\* which is still subscribed to it
C15_Witness ==
    /\ OnOpen("update")
    /\ call.arg = <<8>>
    /\ call.exc = ValueError
    /\ xcm_socket[call.obj] = call.was
    /\ condition[call.obj] = SO_RECEIVABLE
    /\ libxcm[call.was].cond = SO_RECEIVABLE

C18_DecodeByTag ==
    OnOpen("get_attr") =>
        LET h == call.was
            name == call.arg[1]
            tag == Attr(libxcm, h, name).tag
        IN  /\ tag \in 1..4 =>
                   /\ call.exc = NoError
                   /\ call.ret[1] = CASE tag = 1 -> "bool" [] tag = 2 -> "int"
                                       [] tag = 3 -> "str"  [] tag = 4 -> "bin"
            /\ tag \notin 0..4 => call.exc = ValueError /\ call.ret = NoRet
            /\ tag = 0 => call.exc = _raise_io_err("ENOENT") /\ call.ret = NoRet
            /\ name = "xcm.blocking" => call.ret = <<"bool", libxcm[h].blocking>>
            /\ name = "xcm.max_msg_size" => call.ret = <<"int", 65535>>
            /\ name = "xcm.offset" => call.ret = <<"int", 0 - 2>>
            /\ name = "xcm.type" =>
                   call.ret = <<"str", IF libxcm[h].type = "server" THEN <<115>> ELSE <<99>>>>
            /\ name = "dns.blob" => call.ret = <<"bin", <<7, 0, 9>>>>

\* get_attr met a tag it does not know and raised ValueError
C18_Witness ==
    /\ OnOpen("get_attr")
    /\ call.arg = <<"xcm.rate">>
    /\ call.native.fn = "xcm_attr_get"
    /\ ~call.native.failed
    /\ call.exc = ValueError

\* C19: the mask cached in an open object is the mask the native library
\* holds for its handle: the one the last successful xcm_await on that
\* handle set, or 0 if there was none.
C19_CacheEqualsNativeMask ==
    \A s \in Objs :
        (kind[s] # "free" /\ xcm_socket[s] # None)
        => condition[s] = libxcm[xcm_socket[s]].cond

\* xcm_await has just accepted SO_RECEIVABLE for an open socket
C19_Witness ==
    /\ OnOpen("update")
    /\ call.arg = <<SO_RECEIVABLE>>
    /\ call.native.fn = "xcm_await"
    /\ call.exc = NoError
    /\ xcm_socket[call.obj] = call.was
    /\ condition[call.obj] = SO_RECEIVABLE
    /\ libxcm[call.was].cond = SO_RECEIVABLE

\* C20: a get_attr, fileno or is_blocking, returning or raising, changes
\* nothing but its own result: every object keeps its handle and its
\* cached mask, every native socket its mode, its subscription and the
\* messages waiting, and the messages on the way are the same.
C20_ReadOnlyFrame ==
    [][call'.op \in {"get_attr", "fileno", "is_blocking"}
       => UNCHANGED <<kind, xcm_socket, condition, made, torn, libxcm, flight,
                      crashed>>]_vars

\* fileno raised on an open, non-blocking socket with a mask set and a
\* message waiting, all of which are still there
C20_Witness ==
    /\ OnOpen("fileno")
    /\ call.exc.exc = "error"
    /\ xcm_socket[call.obj] = call.was
    /\ condition[call.obj] = SO_RECEIVABLE
    /\ ~libxcm[call.was].blocking
    /\ libxcm[call.was].inq = <<Small>>
    /\ flight[call.was] = <<Small>>

====
